---- MODULE Spec2Model ----
(***************************************************************************)
(* A model of run_synthseg.py, the command-line wrapper around SynthSeg.   *)
(*                                                                         *)
(* One run of the script is one behaviour.  The state holds the parsed     *)
(* arguments, the script's variables (crop list, use_cpu, synthseg_args,   *)
(* post_output_file), the script's position, the external process in      *)
(* flight, and the file system under the output prefix.                    *)
(*                                                                         *)
(* Lengths are kept in half millimetres (an integer h stands for h/2 mm)   *)
(* so that np.round's behaviour on .5 is part of the model.  Posterior     *)
(* probabilities are fixed-point integers.                                 *)
(*                                                                         *)
(* Environment assumed: --input names an existing readable image, the      *)
(* output prefix holds no file from an earlier run, --crop has three       *)
(* values, and an external tool that exits non-zero has written nothing.   *)
(***************************************************************************)
EXTENDS Integers, Sequences, FiniteSets, TLC

VARIABLES
    args,              \* argparse namespace: the flags and the kind of --mask
    geom,              \* geometry of the mask image and of its label-1 bounding box
    crop_requested,    \* the values given to --crop, as parsed (history)
    crop_list,         \* the one list object that args.crop and crop_params both name
    use_cpu,
    bb_extent_ras,
    idx,               \* loop variable of the crop check
    pc,                \* position of the script
    running,           \* external process in flight ("none" when there is none)
    synthseg_args,
    post_output_file,
    invoked,           \* steps started so far, in order (history)
    completed,         \* number of started steps that have returned (history)
    failedAt,          \* position in invoked of the first non-zero exit, 0 if none
    files,             \* files that exist
    requested,         \* paths some step was asked to write
    reads,             \* paths some step was given as input
    err,               \* the uncaught exception, "none" if none
    synthseg_array,    \* label remapper: voxels of SynthSegOrig
    output_array,
    prob_array,        \* posterior remapper: channel -> voxel value
    ants_probs

vars == << args, geom, crop_requested, crop_list, use_cpu, bb_extent_ras, idx, pc,
           running, synthseg_args, post_output_file, invoked, completed, failedAt,
           files, requested, reads, err, synthseg_array, output_array, prob_array,
           ants_probs >>

pipeVars == << args, geom, crop_requested, crop_list, use_cpu, bb_extent_ras, idx,
               running, synthseg_args, post_output_file, invoked, completed,
               failedAt, files, requested, reads, err >>

\* what reading or writing an image through the image library leaves alone
scriptVars == << args, geom, crop_requested, crop_list, use_cpu, bb_extent_ras, idx,
                 running, synthseg_args, post_output_file, failedAt >>

remapVars == << synthseg_array, output_array, prob_array, ants_probs >>

-----------------------------------------------------------------------------
(* Bounds of the model *)

\* voxels in the label image given to the label remapper
MaxVox == 2

\* largest fixed-point posterior value of one channel at one voxel
MaxProb == 2

-----------------------------------------------------------------------------
(* Program constants *)

CropStep == 32

NumCategories == 6

Axes == 0 .. 2

Undefined == "<undefined>"

Input == "<input>"

Mask == "<mask>"

SynthSegInputFile == "SynthSegInput.nii.gz"

OutputSegFile == "SynthSeg.nii.gz"

PosteriorsFile == "Posteriors.nii.gz"

QCFile == "QC.csv"

VolumesFile == "Volumes.csv"

SynthSegOrigFile == "SynthSegOrig.nii.gz"

PosteriorsOrigFile == "PosteriorsOrig.nii.gz"

CorticalParcellationFile == "CorticalParcellation.nii.gz"

CorticalParcellationOrigFile == "CorticalParcellationOrig.nii.gz"

SynthSegToAntsCTFile == "SynthSegToAntsCT.nii.gz"

Digit(d) ==
    CASE d = 0 -> "0" [] d = 1 -> "1" [] d = 2 -> "2" [] d = 3 -> "3" [] d = 4 -> "4"
      [] d = 5 -> "5" [] d = 6 -> "6" [] d = 7 -> "7" [] d = 8 -> "8" [] d = 9 -> "9"

\* str(n) for n >= 0
RECURSIVE Str(_)
Str(n) == IF n < 10 THEN Digit(n) ELSE Str(n \div 10) \o Digit(n % 10)

AntsctPosteriorsFile(i) == "AntsctPosteriors" \o Str(i) \o ".nii.gz"

AntsctPosteriorsFiles == { AntsctPosteriorsFile(i) : i \in 1 .. NumCategories }

DefaultCrop == [i \in Axes |-> IF i = 1 THEN 256 ELSE 192]

\* insertion order of the dict: label_to_ants.items()
label_to_ants ==
    << <<0, 0>>, <<2, 3>>, <<3, 2>>, <<4, 1>>, <<5, 1>>, <<7, 6>>, <<8, 6>>, <<10, 4>>,
       <<11, 4>>, <<12, 4>>, <<13, 4>>, <<14, 1>>, <<15, 1>>, <<16, 5>>, <<17, 4>>,
       <<18, 4>>, <<24, 1>>, <<26, 4>>, <<28, 4>>, <<41, 3>>, <<42, 2>>, <<43, 1>>,
       <<44, 1>>, <<46, 6>>, <<47, 6>>, <<49, 4>>, <<50, 4>>, <<51, 4>>, <<52, 4>>,
       <<53, 4>>, <<54, 4>>, <<58, 4>>, <<60, 4>> >>

-----------------------------------------------------------------------------
(* Crop check: lines 117-139 *)

Abs(x) == IF x < 0 THEN -x ELSE x

\* np.add(bb_vox[0:3], bb_vox[3:6])
BbMaxVox(g) == [i \in Axes |-> g.bb_min[i] + g.bb_size[i]]

\* image.TransformIndexToPhysicalPoint: origin + direction * (spacing .* index)
TransformIndexToPhysicalPoint(g, index) ==
    [i \in Axes |->
        g.origin2[i] + g.direction[i][0] * g.spacing2[0] * index[0]
                     + g.direction[i][1] * g.spacing2[1] * index[1]
                     + g.direction[i][2] * g.spacing2[2] * index[2]]

\* np.round of a non-negative length h/2: halves go to the even neighbour
NpRound(h) ==
    LET q == h \div 2
    IN  IF h % 2 = 0 THEN q ELSE IF q % 2 = 0 THEN q ELSE q + 1

BbExtentRas(g) ==
    LET bb_min_mm == TransformIndexToPhysicalPoint(g, g.bb_min)
        bb_max_mm == TransformIndexToPhysicalPoint(g, BbMaxVox(g))
    IN  [i \in Axes |-> NpRound(Abs(bb_max_mm[i] - bb_min_mm[i]))]

\* line 134 with >= in place of >
ExceedsCrop_OrEqual(extent, crop) == extent >= crop

\* line 134
ExceedsCrop(extent, crop) == extent > crop

\* line 139 written as an assignment of the comparison's result
UseCpuAfter_Overwritten(cpu, extent, crop) == ExceedsCrop(extent, crop)

\* line 139 under line 134: use_cpu after one iteration of the loop
UseCpuAfter(cpu, extent, crop) == IF ExceedsCrop(extent, crop) THEN TRUE ELSE cpu

\* line 138 under line 134: crop_params[idx] after one iteration of the loop
CropAfter(value, extent, crop) ==
    IF ExceedsCrop(extent, crop) THEN value + CropStep ELSE value

(***************************************************************************)
(* Kinds of --mask:                                                        *)
(*   "none"      no --mask given (args.mask is None)                       *)
(*   "missing"   a path that is not an existing regular file               *)
(*   "notimage"  an existing file that the image library cannot read       *)
(*   "empty"     a readable image in which no voxel has label 1            *)
(*   "ok"        a readable image with a label-1 region                    *)
(***************************************************************************)
MaskKinds == {"none", "missing", "notimage", "empty", "ok"}

\* os.path.isfile(args.mask), for a mask that was given
MaskFileExists(m) == m \in {"notimage", "empty", "ok"}

\* line 112 without the os.path.isfile test
MaskUsable_NotNone(m) == m # "none"

\* args.mask is not None and os.path.isfile(args.mask)
MaskUsable(m) == m # "none" /\ MaskFileExists(m)

-----------------------------------------------------------------------------
(* Steps and the files they are given *)

Extract == "ExtractRegionFromImageByMask"

Planner == "CropPlanner"

Copy == "copyfile"

Resample == "ResampleImage"

SynthSeg == "SynthSeg_predict"

AatSeg == "antsApplyTransforms SynthSegOrig"

AatPost == "antsApplyTransforms PosteriorsOrig"

AatParc == "antsApplyTransforms CorticalParcellationOrig"

Remapper == "LabelRemapper"

Tools == {Extract, Resample, SynthSeg, AatSeg, AatPost, AatParc}

HasArg(argv, flag) == \E i \in 1 .. Len(argv) : argv[i] = flag

\* the value that follows an option of the argument list
PathsAfter(argv, options) ==
    { argv[i + 1] : i \in { j \in 1 .. Len(argv) - 1 : argv[j] \in options } }

\* synthseg_args as built by lines 151-168
SynthsegArgs(a, crop, cpu) ==
    << "--i", SynthSegInputFile, "--o", OutputSegFile, "--crop" >>
        \o << Str(crop[0]), Str(crop[1]), Str(crop[2]) >>
        \o (IF a.post THEN << "--post", PosteriorsFile >> ELSE << >>)
        \o (IF a.qc THEN << "--qc", QCFile >> ELSE << >>)
        \o (IF a.vol THEN << "--vol", VolumesFile >> ELSE << >>)
        \o (IF a.parc THEN << "--parc" >> ELSE << >>)
        \o (IF a.robust THEN << "--robust" >> ELSE << >>)
        \o (IF cpu THEN << "--cpu" >> ELSE << >>)

\* the paths on a tool's command line that it reads
ToolInputs(tool) ==
    CASE tool = Extract -> {Input, Mask}
      [] tool = Resample -> {SynthSegInputFile}
      [] tool = SynthSeg -> PathsAfter(synthseg_args, {"--i"})
      [] tool = AatSeg -> {OutputSegFile, Input}
      [] tool = AatPost -> {post_output_file, Input}
      [] tool = AatParc -> {CorticalParcellationFile, Input}

\* the paths on a tool's command line that it is asked to write
ToolOutputs(tool) ==
    CASE tool = Extract -> {SynthSegInputFile}
      [] tool = Resample -> {SynthSegInputFile}
      [] tool = SynthSeg -> PathsAfter(synthseg_args, {"--o", "--post", "--qc", "--vol"})
      [] tool = AatSeg -> {SynthSegOrigFile}
      [] tool = AatPost -> {PosteriorsOrigFile}
      [] tool = AatParc -> {CorticalParcellationOrigFile}

\* a tool cannot exit 0 without its inputs
CanSucceed(tool) ==
    /\ ToolInputs(tool) \subseteq files
    /\ tool = Extract => args.mask # "notimage"

\* the statement reached when the tool returns, whatever its exit status
AfterAatParc == IF args.antsct THEN "read_labels" ELSE "done"

AfterAatPost == IF args.parc THEN "aat_parc" ELSE AfterAatParc

AfterAatSeg == IF args.post \/ args.antsct THEN "aat_post" ELSE AfterAatPost

\* line 175 with the test dropped
AfterSynthSeg_Always == "aat_seg"

AfterSynthSeg == IF args.resample_orig \/ args.antsct THEN "aat_seg" ELSE "done"

AfterTool(tool) ==
    CASE tool = Extract -> "read_mask"
      [] tool = Resample -> "build_args"
      [] tool = SynthSeg -> AfterSynthSeg
      [] tool = AatSeg -> AfterAatSeg
      [] tool = AatPost -> AfterAatPost
      [] tool = AatParc -> AfterAatParc

-----------------------------------------------------------------------------
(* Inputs *)

Flags == {"cpu", "post", "qc", "vol", "parc", "robust", "resample_orig", "antsct"}

ArgsOf(on, m) ==
    [cpu |-> "cpu" \in on, post |-> "post" \in on, qc |-> "qc" \in on,
     vol |-> "vol" \in on, parc |-> "parc" \in on, robust |-> "robust" \in on,
     resample_orig |-> "resample_orig" \in on, antsct |-> "antsct" \in on,
     mask |-> m]

Vec(x, y, z) == [i \in Axes |-> IF i = 0 THEN x ELSE IF i = 1 THEN y ELSE z]

\* direction cosines and origin (half mm): axis-aligned, and a sagittal acquisition
Orientations ==
    { [direction |-> Vec(Vec(1, 0, 0), Vec(0, 1, 0), Vec(0, 0, 1)),
       origin2 |-> Vec(0, 0, 0)],
      [direction |-> Vec(Vec(0, 0, -1), Vec(1, 0, 0), Vec(0, -1, 0)),
       origin2 |-> Vec(180, -250, 140)] }

\* voxel spacing (half mm) and the bounding box's minimum corner
Grids ==
    { [spacing2 |-> Vec(2, 2, 2), bb_min |-> Vec(0, 0, 0)],
      [spacing2 |-> Vec(2, 2, 3), bb_min |-> Vec(10, 20, 30)],
      [spacing2 |-> Vec(1, 1, 2), bb_min |-> Vec(5, 0, 7)] }

BbSizes == {129, 192, 385}

CropChoices == {192, 256}

GeomOf(o, g, size) ==
    [direction |-> o.direction, origin2 |-> o.origin2, spacing2 |-> g.spacing2,
     bb_min |-> g.bb_min, bb_size |-> size]

Geometries ==
    { GeomOf(o, g, Vec(x, y, z)) :
        o \in Orientations, g \in Grids, x \in BbSizes, y \in BbSizes, z \in BbSizes }

\* geometries tried with every combination of flags
SampleGeometries ==
    { GeomOf(o, g, s) : o \in Orientations, g \in {h \in Grids : h.bb_min[0] = 0},
                        s \in {Vec(129, 192, 129), Vec(385, 385, 385)} }

NoGeometry ==
    GeomOf(CHOOSE o \in Orientations : o.origin2[0] = 0,
           CHOOSE g \in Grids : g.bb_min[0] = 0, Vec(0, 0, 0))

InitScript(a, g, crop) ==
    /\ args = a
    /\ geom = g
    /\ crop_requested = crop
    /\ crop_list = crop
    /\ use_cpu = a.cpu
    /\ bb_extent_ras = Vec(0, 0, 0)
    /\ idx = 0
    /\ running = "none"
    /\ synthseg_args = << >>
    /\ post_output_file = Undefined
    /\ invoked = << >>
    /\ completed = 0
    /\ failedAt = 0
    /\ files = {Input} \cup (IF MaskFileExists(a.mask) THEN {Mask} ELSE {})
    /\ requested = {}
    /\ reads = {}
    /\ err = "none"

InitRun(a, g, crop) ==
    /\ InitScript(a, g, crop)
    /\ pc = "start"
    /\ synthseg_array = << >>
    /\ output_array = << >>
    /\ prob_array = << >>
    /\ ants_probs = << >>

\* every combination of flags, every kind of mask, the default crop
InitFlags ==
    \E on \in SUBSET Flags, m \in MaskKinds :
        \E g \in (IF m = "ok" THEN SampleGeometries ELSE {NoGeometry}) :
            InitRun(ArgsOf(on, m), g, DefaultCrop)

\* every geometry against every crop window
InitCrop ==
    \E on \in SUBSET {"cpu"}, g \in Geometries :
        \E cx \in CropChoices, cy \in CropChoices, cz \in CropChoices :
            InitRun(ArgsOf(on, "ok"), g, Vec(cx, cy, cz))

Init == InitFlags \/ InitCrop

-----------------------------------------------------------------------------
(* The script, statement by statement *)

Raise(exception) ==
    /\ pc' = "crashed"
    /\ err' = exception

\* subprocess.Popen in place of subprocess.run: the script does not wait
StartTool_NoWait(tool) ==
    /\ running' = tool
    /\ invoked' = Append(invoked, tool)
    /\ requested' = requested \cup ToolOutputs(tool)
    /\ reads' = reads \cup ToolInputs(tool)
    /\ UNCHANGED << args, geom, crop_requested, crop_list, use_cpu, bb_extent_ras, idx,
                    pc, synthseg_args, post_output_file, completed, failedAt, files,
                    err, remapVars >>

\* subprocess.run([...]) without check=True: start the process and wait for it
StartTool(tool) ==
    /\ running = "none"
    /\ running' = tool
    /\ invoked' = Append(invoked, tool)
    /\ requested' = requested \cup ToolOutputs(tool)
    /\ reads' = reads \cup ToolInputs(tool)
    /\ UNCHANGED << args, geom, crop_requested, crop_list, use_cpu, bb_extent_ras, idx,
                    pc, synthseg_args, post_output_file, completed, failedAt, files,
                    err, remapVars >>

\* line 112 true, line 114
StartExtract ==
    /\ pc = "start"
    /\ MaskUsable(args.mask)
    /\ StartTool(Extract)

\* line 112 false, line 142
CopyInput ==
    /\ pc = "start"
    /\ ~ MaskUsable(args.mask)
    /\ pc' = "resample"
    /\ invoked' = Append(invoked, Copy)
    /\ completed' = completed + 1
    /\ reads' = reads \cup {Input}
    /\ requested' = requested \cup {SynthSegInputFile}
    /\ files' = files \cup {SynthSegInputFile}
    /\ UNCHANGED << args, geom, crop_requested, crop_list, use_cpu, bb_extent_ras, idx,
                    running, synthseg_args, post_output_file, failedAt, err, remapVars >>

\* the process in flight exits; its status is dropped and the script goes on
ToolReturn ==
    /\ running # "none"
    /\ \E ok \in BOOLEAN :
        /\ ok => CanSucceed(running)
        /\ files' = IF ok THEN files \cup ToolOutputs(running) ELSE files
        /\ failedAt' = IF ~ ok /\ failedAt = 0 THEN Len(invoked) ELSE failedAt
    /\ running' = "none"
    /\ completed' = completed + 1
    /\ pc' = AfterTool(running)
    /\ UNCHANGED << args, geom, crop_requested, crop_list, use_cpu, bb_extent_ras, idx,
                    synthseg_args, post_output_file, invoked, requested, reads, err,
                    remapVars >>

\* line 117
ReadMask ==
    /\ pc = "read_mask"
    /\ invoked' = Append(invoked, Planner)
    /\ reads' = reads \cup {Mask}
    /\ IF args.mask = "notimage"
          THEN Raise("RuntimeError")
          ELSE pc' = "bbox" /\ err' = err
    /\ UNCHANGED << args, geom, crop_requested, crop_list, use_cpu, bb_extent_ras, idx,
                    running, synthseg_args, post_output_file, completed, failedAt,
                    files, requested, remapVars >>

\* lines 118-131
BoundingBox ==
    /\ pc = "bbox"
    /\ IF args.mask = "empty"
          THEN Raise("RuntimeError") /\ UNCHANGED << bb_extent_ras, idx >>
          ELSE /\ bb_extent_ras' = BbExtentRas(geom)
               /\ idx' = 0
               /\ pc' = "plan"
               /\ err' = err
    /\ UNCHANGED << args, geom, crop_requested, crop_list, use_cpu, running,
                    synthseg_args, post_output_file, invoked, completed, failedAt,
                    files, requested, reads, remapVars >>

\* lines 133-139, one iteration
PlanAxis ==
    /\ pc = "plan"
    /\ idx \in Axes
    /\ crop_list' = [crop_list EXCEPT
                        ![idx] = CropAfter(crop_list[idx], bb_extent_ras[idx], crop_list[idx])]
    /\ use_cpu' = UseCpuAfter(use_cpu, bb_extent_ras[idx], crop_list[idx])
    /\ idx' = idx + 1
    /\ IF idx = 2
          THEN pc' = "resample" /\ completed' = completed + 1
          ELSE UNCHANGED << pc, completed >>
    /\ UNCHANGED << args, geom, crop_requested, bb_extent_ras, running, synthseg_args,
                    post_output_file, invoked, failedAt, files, requested, reads, err,
                    remapVars >>

\* line 145
StartResample ==
    /\ pc = "resample"
    /\ StartTool(Resample)

\* lines 149-168
BuildArgs ==
    /\ pc = "build_args"
    /\ synthseg_args' = SynthsegArgs(args, crop_list, use_cpu)
    /\ post_output_file' = IF args.post THEN PosteriorsFile ELSE post_output_file
    /\ pc' = "synthseg"
    /\ UNCHANGED << args, geom, crop_requested, crop_list, use_cpu, bb_extent_ras, idx,
                    running, invoked, completed, failedAt, files, requested, reads,
                    err, remapVars >>

\* line 173
StartSynthSeg ==
    /\ pc = "synthseg"
    /\ StartTool(SynthSeg)

\* lines 175-179
StartAatSeg ==
    /\ pc = "aat_seg"
    /\ StartTool(AatSeg)

\* lines 180-182: the name post_output_file is bound only under --post
StartAatPost ==
    \/ /\ pc = "aat_post"
       /\ post_output_file # Undefined
       /\ StartTool(AatPost)
    \/ /\ pc = "aat_post"
       /\ post_output_file = Undefined
       /\ Raise("NameError")
       /\ UNCHANGED << args, geom, crop_requested, crop_list, use_cpu, bb_extent_ras,
                       idx, running, synthseg_args, post_output_file, invoked,
                       completed, failedAt, files, requested, reads, remapVars >>

\* lines 183-186
StartAatParc ==
    /\ pc = "aat_parc"
    /\ StartTool(AatParc)

\* line 191
ReadLabels ==
    /\ pc = "read_labels"
    /\ invoked' = Append(invoked, Remapper)
    /\ reads' = reads \cup {SynthSegOrigFile}
    /\ IF SynthSegOrigFile \in files
          THEN pc' = "remap_labels" /\ err' = err
          ELSE Raise("RuntimeError")
    /\ UNCHANGED << scriptVars, completed, files, requested, remapVars >>

\* lines 194-242
WriteAntsLabels ==
    /\ pc = "remap_labels"
    /\ requested' = requested \cup {SynthSegToAntsCTFile}
    /\ files' = files \cup {SynthSegToAntsCTFile}
    /\ pc' = "read_probs"
    /\ UNCHANGED << scriptVars, invoked, completed, reads, err, remapVars >>

\* line 244
ReadProbs ==
    /\ pc = "read_probs"
    /\ reads' = reads \cup {PosteriorsOrigFile}
    /\ IF PosteriorsOrigFile \in files
          THEN pc' = "remap_probs" /\ err' = err
          ELSE Raise("RuntimeError")
    /\ UNCHANGED << scriptVars, invoked, completed, files, requested, remapVars >>

\* lines 247-268
WriteAntsPosteriors ==
    /\ pc = "remap_probs"
    /\ requested' = requested \cup AntsctPosteriorsFiles
    /\ files' = files \cup AntsctPosteriorsFiles
    /\ completed' = completed + 1
    /\ pc' = "done"
    /\ UNCHANGED << scriptVars, invoked, reads, err, remapVars >>

Next ==
    \/ StartExtract
    \/ CopyInput
    \/ ToolReturn
    \/ ReadMask
    \/ BoundingBox
    \/ PlanAxis
    \/ StartResample
    \/ BuildArgs
    \/ StartSynthSeg
    \/ StartAatSeg
    \/ StartAatPost
    \/ StartAatParc
    \/ ReadLabels
    \/ WriteAntsLabels
    \/ ReadProbs
    \/ WriteAntsPosteriors

Spec == Init /\ [][Next]_vars

-----------------------------------------------------------------------------
(* Label remapper, lines 230-235, on the voxels of one label image *)

NumLabels == Len(label_to_ants)

Keys == { label_to_ants[p][1] : p \in 1 .. NumLabels }

\* label values that are not keys of the table
OtherLabels == {1, 6, 61}

LabelValues == Keys \cup OtherLabels

\* np.zeros_like(array)
ZerosLike(array) == [v \in DOMAIN array |-> 0]

\* line 235 with the mask taken on the array being written
AssignWhereEqual_InPlace(out, in, label, ants_label) ==
    [v \in DOMAIN out |-> IF out[v] = label THEN ants_label ELSE out[v]]

\* line 235: output_array[synthseg_array == label] = ants_label
AssignWhereEqual(out, in, label, ants_label) ==
    [v \in DOMAIN out |-> IF in[v] = label THEN ants_label ELSE out[v]]

\* lines 234-235: the loop over label_to_ants.items(), from position p on
RECURSIVE RemapFrom(_, _, _)
RemapFrom(out, in, p) ==
    IF p > NumLabels
      THEN out
      ELSE RemapFrom(AssignWhereEqual(out, in, label_to_ants[p][1], label_to_ants[p][2]),
                     in, p + 1)

InitLabels ==
    /\ InitScript(ArgsOf({"antsct", "post"}, "none"), NoGeometry, DefaultCrop)
    /\ pc = "remap_labels"
    /\ \E n \in 1 .. MaxVox : synthseg_array \in [1 .. n -> LabelValues]
    /\ output_array = << >>
    /\ prob_array = << >>
    /\ ants_probs = << >>

\* lines 230-235
RemapLabels ==
    /\ pc = "remap_labels"
    /\ output_array' = RemapFrom(ZerosLike(synthseg_array), synthseg_array, 1)
    /\ pc' = "labels_done"
    /\ UNCHANGED << pipeVars, synthseg_array, prob_array, ants_probs >>

NextLabels == RemapLabels

SpecLabels == InitLabels /\ [][NextLabels]_vars

-----------------------------------------------------------------------------
(* Posterior remapper, lines 247-260, at one voxel: the arrays are added   *)
(* elementwise, so prob_array[idx] and ants_probs[c] are that voxel's      *)
(* values.  Channels and categories are numbered from 0 as in the script.  *)

\* numbers of channels in the posterior image
ChannelCounts == {32, 33, 34}

\* line 260 taking the channel as if the background had no channel
AddChannel_NoBackgroundChannel(probs, sums, channel) ==
    LET label == label_to_ants[channel + 1][1]
        category == label_to_ants[channel + 1][2]
    IN  IF label = 0
          THEN sums
          ELSE [sums EXCEPT ![category - 1] = sums[category - 1] + probs[channel - 1]]

\* lines 257-260, for idx = channel
AddChannel(probs, sums, channel) ==
    LET label == label_to_ants[channel + 1][1]
        category == label_to_ants[channel + 1][2]
    IN  IF label = 0
          THEN sums
          ELSE [sums EXCEPT ![category - 1] = sums[category - 1] + probs[channel]]

\* lines 256-260: the loop over enumerate(label_to_ants.keys()), from idx on
RECURSIVE AccumulateFrom(_, _, _)
AccumulateFrom(probs, sums, channel) ==
    IF channel >= NumLabels
      THEN sums
      ELSE AccumulateFrom(probs, AddChannel(probs, sums, channel), channel + 1)

InitProbs ==
    /\ InitScript(ArgsOf({"antsct", "post"}, "none"), NoGeometry, DefaultCrop)
    /\ pc = "remap_probs"
    /\ synthseg_array = << >>
    /\ output_array = << >>
    /\ \E n \in ChannelCounts :
          \E a \in 0 .. n - 1, b \in 0 .. n - 1, pa \in 0 .. MaxProb, pb \in 0 .. MaxProb :
              prob_array = [c \in 0 .. n - 1 |->
                              IF c = a THEN pa ELSE IF c = b THEN pb ELSE 0]
    /\ ants_probs = << >>

\* lines 247-260; indexing past the last channel raises
RemapPosteriors ==
    /\ pc = "remap_probs"
    /\ IF \A channel \in 1 .. NumLabels - 1 : channel \in DOMAIN prob_array
          THEN /\ ants_probs' = AccumulateFrom(prob_array,
                                               [c \in 0 .. NumCategories - 1 |-> 0], 0)
               /\ pc' = "probs_done"
               /\ err' = err
          ELSE /\ Raise("IndexError")
               /\ UNCHANGED ants_probs
    /\ UNCHANGED << scriptVars, invoked, completed, files, requested, reads,
                    synthseg_array, output_array, prob_array >>

NextProbs == RemapPosteriors

SpecProbs == InitProbs /\ [][NextProbs]_vars

-----------------------------------------------------------------------------
(* Properties *)

Started(step) == \E i \in 1 .. Len(invoked) : invoked[i] = step

ArgsBuilt == synthseg_args # << >>

Finished == pc \in {"done", "crashed"}

\* the crop check has run to its end
PlannerFinished == args.mask = "ok" /\ Started(Planner) /\ pc \notin {"bbox", "plan"}

MaskExceeds(i) == BbExtentRas(geom)[i] > crop_requested[i]

CropTokens == << synthseg_args[6], synthseg_args[7], synthseg_args[8] >>

\* C1: once an external tool has exited non-zero, no later step is started and
\* the script does not end normally.
ClaimC1 ==
    failedAt # 0 => Len(invoked) = failedAt /\ pc # "done"

\* C2: with a usable mask and a crop window of three multiples of 32, after the
\* crop check each axis's window is the requested value plus 32 when the mask's
\* rounded extent on that axis is strictly greater than the requested value and
\* the requested value otherwise; at no time is an axis raised by anything but 0
\* or 32; these values are the ones passed to the segmentation tool.
CropPlanned ==
    /\ \A i \in Axes : crop_list[i] \in {crop_requested[i], crop_requested[i] + 32}
    /\ PlannerFinished =>
          \A i \in Axes :
              crop_list[i] = crop_requested[i] + (IF MaskExceeds(i) THEN 32 ELSE 0)
    /\ ArgsBuilt /\ args.mask = "ok" =>
          \A i \in Axes :
              CropTokens[i + 1] = Str(crop_requested[i] + (IF MaskExceeds(i) THEN 32 ELSE 0))

\* C2 witness: the crop check has finished having raised the first axis only, the
\* mask being larger there than even the raised window.
CropPlannedWitness ==
    /\ PlannerFinished
    /\ ArgsBuilt
    /\ crop_list[0] = crop_requested[0] + 32
    /\ BbExtentRas(geom)[0] > crop_list[0]
    /\ crop_list[1] = crop_requested[1]
    /\ crop_list[2] = crop_requested[2]
    /\ BbExtentRas(geom)[1] = crop_requested[1]

\* C3: the segmentation argument list holds --cpu exactly when --cpu was given or
\* the crop check ran on a usable mask and found the extent above the requested
\* window on some axis; a flag set by the user or by the crop check is never
\* cleared; with no mask and no --cpu the flag is absent.
CpuFlag ==
    /\ ArgsBuilt =>
          (HasArg(synthseg_args, "--cpu")
              <=> (args.cpu \/ (args.mask = "ok" /\ \E i \in Axes : MaskExceeds(i))))
    /\ (args.cpu \/ \E i \in Axes : crop_list[i] # crop_requested[i]) => use_cpu
    /\ (args.mask = "none" /\ ~ args.cpu) =>
          ~ use_cpu /\ ~ HasArg(synthseg_args, "--cpu")

\* C3 witness: --cpu was not given, the crop check raised the first axis and not
\* the last, and the argument list holds --cpu.
CpuFlagWitness ==
    /\ ArgsBuilt
    /\ ~ args.cpu
    /\ MaskExceeds(0)
    /\ ~ MaskExceeds(2)
    /\ HasArg(synthseg_args, "--cpu")

\* C4: under --antsct the segmentation tool is given a posteriors path and the
\* posteriors path is bound when the original-space resampling uses it, whether
\* or not --post was given.
ClaimC4 ==
    args.antsct =>
        /\ ArgsBuilt => HasArg(synthseg_args, "--post")
        /\ err # "NameError"

OptionalOutputs ==
    {PosteriorsFile, QCFile, VolumesFile, SynthSegOrigFile, PosteriorsOrigFile,
     CorticalParcellationOrigFile, SynthSegToAntsCTFile} \cup AntsctPosteriorsFiles

NoOptionalFlag ==
    /\ args = ArgsOf({}, "none")
    /\ crop_requested = DefaultCrop

\* C5: the segmentation tool is asked for one label map, at SynthSeg.nii.gz; every
\* other output is requested only under the flag that opts into it; a run with no
\* mask, the default crop and no optional flag requests SynthSegInput.nii.gz and
\* SynthSeg.nii.gz and nothing else, and leaves exactly these when its tools
\* exit 0.
OutputsOptIn ==
    /\ ArgsBuilt =>
          /\ Cardinality({ i \in 1 .. Len(synthseg_args) : synthseg_args[i] = "--o" }) = 1
          /\ << synthseg_args[3], synthseg_args[4] >> = << "--o", OutputSegFile >>
    /\ requested \subseteq {SynthSegInputFile, OutputSegFile} \cup OptionalOutputs
    /\ Started(SynthSeg) => OutputSegFile \in requested
    /\ PosteriorsFile \in requested => args.post
    /\ QCFile \in requested => args.qc
    /\ VolumesFile \in requested => args.vol
    /\ SynthSegOrigFile \in requested => args.resample_orig \/ args.antsct
    /\ PosteriorsOrigFile \in requested =>
          (args.resample_orig \/ args.antsct) /\ (args.post \/ args.antsct)
    /\ CorticalParcellationOrigFile \in requested =>
          (args.resample_orig \/ args.antsct) /\ args.parc
    /\ requested \cap ({SynthSegToAntsCTFile} \cup AntsctPosteriorsFiles) # {} => args.antsct
    /\ (NoOptionalFlag /\ pc = "done") =>
          /\ requested = {SynthSegInputFile, OutputSegFile}
          /\ files \ {Input} \subseteq requested
          /\ failedAt = 0 => files \ {Input} = requested
          /\ ~ HasArg(synthseg_args, "--cpu")

\* C5 witness: the run with no mask, the default crop and no optional flag has
\* ended with every tool exiting 0.
OutputsOptInWitness ==
    /\ NoOptionalFlag
    /\ pc = "done"
    /\ failedAt = 0
    /\ files = {Input, SynthSegInputFile, OutputSegFile}

\* what "treated as no mask supplied" comes to: no region extraction, no crop
\* check, the input copied first, the crop window and the CPU flag as given, no
\* exception before segmentation, and the run going on to resample and segment
AsWithoutMask ==
    /\ ~ Started(Extract)
    /\ ~ Started(Planner)
    /\ invoked # << >> => invoked[1] = Copy
    /\ pc # "start" => SynthSegInputFile \in files
    /\ crop_list = crop_requested
    /\ use_cpu = args.cpu
    /\ ArgsBuilt =>
          /\ CropTokens = << Str(crop_requested[0]), Str(crop_requested[1]),
                             Str(crop_requested[2]) >>
          /\ HasArg(synthseg_args, "--cpu") <=> args.cpu
    /\ Finished => Started(Resample) /\ Started(SynthSeg)

\* C8 as stated: a mask path that is missing, or that names a file which is not a
\* readable image, is treated as no mask supplied.
ClaimC8 ==
    args.mask \in {"missing", "notimage"} => AsWithoutMask

\* C8 amended: a mask path that does not name an existing file is treated as no
\* mask supplied; a mask path naming an existing file that is not a readable image
\* is not: region extraction is started on it, and the run ends in an exception
\* at the read of the mask, before the resample.
MissingMaskIsNoMask ==
    /\ args.mask = "missing" => AsWithoutMask
    /\ args.mask = "notimage" =>
          /\ pc # "start" => Started(Extract)
          /\ ~ Started(Copy)
          /\ ~ Started(Resample)
          /\ pc \in {"start", "read_mask", "crashed"}
          /\ pc = "crashed" => err = "RuntimeError"

\* C8 witness: a run whose mask path names no file has ended normally.
MissingMaskWitness ==
    /\ args.mask = "missing"
    /\ pc = "done"
    /\ invoked[1] = Copy

\* the stage of a step in the order the claim gives
ClaimedStage(step) ==
    CASE step = Planner -> 1
      [] step \in {Extract, Copy, Resample} -> 2
      [] step = SynthSeg -> 3
      [] step \in {AatSeg, AatPost, AatParc} -> 4
      [] step = Remapper -> 5

\* the place of a step in the order of the script
ScriptOrder(step) ==
    CASE step \in {Extract, Copy} -> 1
      [] step = Planner -> 2
      [] step = Resample -> 3
      [] step = SynthSeg -> 4
      [] step = AatSeg -> 5
      [] step = AatPost -> 6
      [] step = AatParc -> 7
      [] step = Remapper -> 8

OneAtATime ==
    /\ Len(invoked) - completed \in {0, 1}
    /\ running # "none" => completed = Len(invoked) - 1 /\ invoked[Len(invoked)] = running

ResampleOnceBeforeSegmentation ==
    \A j \in 1 .. Len(invoked) :
        invoked[j] = SynthSeg =>
            Cardinality({ i \in 1 .. j - 1 : invoked[i] = Resample }) = 1

\* C9 as stated: no step of a later stage precedes a step of an earlier stage, the
\* stages being crop check, preprocessing, segmentation, postprocessing, remapper.
ClaimC9 ==
    /\ \A i \in 1 .. Len(invoked) : \A j \in i + 1 .. Len(invoked) :
          ClaimedStage(invoked[i]) <= ClaimedStage(invoked[j])
    /\ OneAtATime
    /\ ResampleOnceBeforeSegmentation

\* C9 amended: the steps occur in the strictly linear order region extraction then
\* crop check (or the verbatim copy alone), 1mm resample, segmentation,
\* postprocessing, label remapper; no step starts before the previous one has
\* completed, none runs twice, and the resample runs exactly once before
\* segmentation with or without a mask.
LinearOrder ==
    /\ \A i \in 1 .. Len(invoked) : \A j \in i + 1 .. Len(invoked) :
          ScriptOrder(invoked[i]) < ScriptOrder(invoked[j])
    /\ OneAtATime
    /\ ResampleOnceBeforeSegmentation

\* C9 witness: a run with a mask and every postprocessing step has ended.
LinearOrderWitness ==
    /\ pc = "done"
    /\ invoked = << Extract, Planner, Resample, SynthSeg, AatSeg, AatPost, AatParc,
                    Remapper >>
    /\ completed = 8

\* C10: every path a step is given as input is the user's input or mask or a path
\* an earlier step was asked to write, and no name is used before it is bound.
ClaimC10 ==
    /\ reads \subseteq requested \cup {Input, Mask}
    /\ err # "NameError"

Lookup(value) ==
    IF value \in Keys
      THEN label_to_ants[CHOOSE p \in 1 .. NumLabels : label_to_ants[p][1] = value][2]
      ELSE 0

\* C6: after the label remapper every output voxel is the table's entry for the
\* input voxel's value, and 0 for a value the table does not hold; 17 gives 4, 16
\* gives 5, 0 gives 0; the table has 33 entries and every output is in 0..6.
LabelsRemapped ==
    /\ NumLabels = 33 /\ Cardinality(Keys) = 33
    /\ pc = "labels_done" =>
          /\ DOMAIN output_array = DOMAIN synthseg_array
          /\ \A v \in DOMAIN synthseg_array :
                /\ output_array[v] = Lookup(synthseg_array[v])
                /\ output_array[v] \in 0 .. 6
                /\ synthseg_array[v] = 17 => output_array[v] = 4
                /\ synthseg_array[v] = 16 => output_array[v] = 5
                /\ synthseg_array[v] = 0 => output_array[v] = 0
                /\ synthseg_array[v] \notin Keys => output_array[v] = 0

\* C6 witness: an image holding 17 and a value outside the table has been remapped.
LabelsRemappedWitness ==
    /\ pc = "labels_done"
    /\ synthseg_array = << 17, 61 >>
    /\ output_array = << 4, 0 >>

RECURSIVE SumOver(_, _)
SumOver(f, S) ==
    IF S = {} THEN 0 ELSE LET x == CHOOSE y \in S : TRUE IN f[x] + SumOver(f, S \ {x})

====
